---------------------------- MODULE Spec2Model ----------------------------
(***************************************************************************)
(* HULIOS: the network enforcement state machine (start / stop / restart / *)
(* flush) of src/src/engine.rs over the firewall of src/src/iptables.rs.   *)
(*                                                                         *)
(* The host is the state: the netfilter tables, /etc/resolv.conf and its   *)
(* immutable attribute, the files under /tmp, the process table and the    *)
(* resolver services.  Each invocation of the program is a process that    *)
(* walks through its handler one helper call at a time.                    *)
(***************************************************************************)
EXTENDS Naturals, Sequences, FiniteSets, TLC

(* ------------------------------ bounds --------------------------------- *)
\* Number of process ids the host hands out (pids are reused once free).
MaxPid == 3

\* Number of invocations, over a run of the model, during which a tool fails.
MaxFaults == 1

Pids == 1..MaxPid

\* Invocations of the program that may exist at the same time.
Procs == {1, 2}

(* --------------------------- program constants ------------------------- *)
TOR_USER == "tor"
DNS_PORT == "9061"
TRANS_PORT == "9051"

(* ------------------------------ firewall ------------------------------- *)
\* One netfilter backend per binary.
Bins == {"iptables", "ip6tables", "iptables-legacy", "ip6tables-legacy"}
Chains == {"INPUT", "OUTPUT", "FORWARD"}
\* The chains whose rule lists the program touches, plus FORWARD which it
\* never does.
ChainKeys == {<<"nat", "OUTPUT">>, <<"filter", "OUTPUT">>,
              <<"filter", "INPUT">>, <<"filter", "FORWARD">>}

EmptyTables == [policy |-> [c \in Chains |-> "ACCEPT"],
                rules  |-> [k \in ChainKeys |-> << >>]]

\* A rule: a match (with its argument) and a target (with its argument).
Rule(m, marg, j, jarg) == [m |-> m, marg |-> marg, j |-> j, jarg |-> jarg]

\* One invocation of a firewall binary.
CmdPolicy(bin, chain, pol) ==
    [bin |-> bin, op |-> "P", table |-> "filter", chain |-> chain, arg |-> pol]
CmdAppend(bin, table, chain, rule) ==
    [bin |-> bin, op |-> "A", table |-> table, chain |-> chain, arg |-> rule]
CmdFlush(bin, table, chain) ==
    [bin |-> bin, op |-> "F", table |-> table, chain |-> chain, arg |-> "-"]

\* Running a list of invocations in order, those whose index is in fails
\* failing.  run_iptables, run_ip6tables and the `let _ =` calls all give
\* Ok(()) whatever the binary did, so a failed invocation is skipped and the
\* list goes on.  The outcome per binary: a chain's policy is the one the
\* last successful -P set; a chain's rules are what was there (nothing, once
\* an -F succeeded) followed by the rules of the successful -A after the
\* last successful -F.
Eff(cmds, fails, bin) ==
    {i \in 1..Len(cmds) : i \notin fails /\ cmds[i].bin = bin}
LastOf(S) == IF S = {} THEN 0 ELSE CHOOSE i \in S : \A j \in S : j <= i
Nth(S, n) == CHOOSE i \in S : Cardinality({j \in S : j <= i}) = n

RunCmds(f, cmds, fails) ==
    [bin \in Bins |->
       LET E == Eff(cmds, fails, bin) IN
       [policy |->
          [c \in Chains |->
             LET P == {i \in E : cmds[i].op = "P" /\ cmds[i].chain = c}
             IN  IF P = {} THEN f[bin].policy[c] ELSE cmds[LastOf(P)].arg],
        rules |->
          [k \in ChainKeys |->
             LET On == {i \in E : <<cmds[i].table, cmds[i].chain>> = k}
                 last == LastOf({i \in On : cmds[i].op = "F"})
                 A == {i \in On : cmds[i].op = "A" /\ i > last}
             IN  (IF last = 0 THEN f[bin].rules[k] ELSE << >>)
                 \o [n \in 1..Cardinality(A) |-> cmds[Nth(A, n)].arg]]]]

\* The invocations of flush_rules, in source order.
FlushCmds ==
    << CmdPolicy("iptables", "OUTPUT", "ACCEPT"),
       CmdPolicy("iptables", "INPUT", "ACCEPT"),
       CmdPolicy("iptables", "FORWARD", "ACCEPT"),
       CmdFlush("iptables", "nat", "OUTPUT"),
       CmdFlush("iptables", "filter", "OUTPUT"),
       CmdFlush("iptables", "filter", "INPUT"),
       CmdPolicy("ip6tables", "OUTPUT", "ACCEPT"),
       CmdPolicy("ip6tables", "INPUT", "ACCEPT"),
       CmdPolicy("ip6tables", "FORWARD", "ACCEPT"),
       CmdFlush("ip6tables", "nat", "OUTPUT"),
       CmdFlush("ip6tables", "filter", "OUTPUT"),
       CmdFlush("ip6tables", "filter", "INPUT"),
       CmdFlush("iptables-legacy", "nat", "OUTPUT"),
       CmdFlush("iptables-legacy", "filter", "OUTPUT"),
       CmdFlush("ip6tables-legacy", "nat", "OUTPUT"),
       CmdFlush("ip6tables-legacy", "filter", "OUTPUT") >>

\* The invocations of apply_rules after its flush, in source order.
ApplyCmds(tor_user) ==
    << CmdAppend("iptables", "nat", "OUTPUT", Rule("state", "ESTABLISHED", "RETURN", "-")),
       CmdAppend("iptables", "nat", "OUTPUT", Rule("uid-owner", tor_user, "RETURN", "-")),
       CmdAppend("iptables", "nat", "OUTPUT", Rule("udp", "dport 53", "REDIRECT", DNS_PORT)),
       CmdAppend("iptables", "nat", "OUTPUT", Rule("tcp", "dport 53", "REDIRECT", DNS_PORT)),
       CmdAppend("iptables", "nat", "OUTPUT", Rule("dst", "127.0.0.0/8", "RETURN", "-")),
       CmdAppend("iptables", "nat", "OUTPUT", Rule("tcp", "-", "REDIRECT", TRANS_PORT)),
       CmdPolicy("iptables", "OUTPUT", "DROP"),
       CmdAppend("iptables", "filter", "OUTPUT", Rule("out", "lo", "ACCEPT", "-")),
       CmdAppend("iptables", "filter", "OUTPUT", Rule("dst", "127.0.0.0/8", "ACCEPT", "-")),
       CmdAppend("iptables", "filter", "OUTPUT", Rule("state", "ESTABLISHED,RELATED", "ACCEPT", "-")),
       CmdAppend("iptables", "filter", "OUTPUT", Rule("uid-owner", tor_user, "ACCEPT", "-")),
       CmdAppend("iptables", "filter", "OUTPUT", Rule("udp", "dport 53", "DROP", "-")),
       CmdAppend("iptables", "filter", "OUTPUT", Rule("tcp", "dport 53", "DROP", "-")),
       CmdAppend("iptables", "filter", "OUTPUT", Rule("tcp", "dport 853", "DROP", "-")),
       CmdAppend("iptables", "filter", "OUTPUT", Rule("udp", "dport 443", "DROP", "-")),
       CmdAppend("iptables", "filter", "OUTPUT", Rule("any", "-", "DROP", "-")),
       CmdPolicy("ip6tables", "OUTPUT", "DROP"),
       CmdPolicy("ip6tables", "INPUT", "DROP"),
       CmdPolicy("ip6tables", "FORWARD", "DROP"),
       CmdAppend("ip6tables", "filter", "OUTPUT", Rule("out", "lo", "ACCEPT", "-")),
       CmdAppend("ip6tables", "filter", "INPUT", Rule("in", "lo", "ACCEPT", "-")),
       CmdAppend("ip6tables", "filter", "OUTPUT", Rule("state", "ESTABLISHED,RELATED", "ACCEPT", "-")),
       CmdAppend("ip6tables", "filter", "INPUT", Rule("state", "ESTABLISHED,RELATED", "ACCEPT", "-")),
       CmdAppend("ip6tables", "filter", "OUTPUT", Rule("any", "-", "DROP", "-")),
       CmdAppend("ip6tables", "filter", "INPUT", Rule("any", "-", "DROP", "-")) >>

\* The indices of cmds whose binary is in down (not installed, not runnable).
FailsOf(cmds, down) == {i \in 1..Len(cmds) : cmds[i].bin \in down}

\* Variant: the NAT OUTPUT chain of iptables is not flushed.
flush_rules_keep_nat(f, fails) == RunCmds(f, FlushCmds, fails \cup {4})

\* flush_rules: every invocation is best-effort, the result is always Ok.
flush_rules(f, fails) == RunCmds(f, FlushCmds, fails)

\* apply_rules: flush_rules first, then the rule list; always Ok.
apply_rules(f, tor_user, flushFails, applyFails) ==
    RunCmds(flush_rules(f, flushFails), ApplyCmds(tor_user), applyFails)

(* --------------------------- resolution config ------------------------- *)
\* File contents are named, not spelled out: "orig" is the host's own
\* /etc/resolv.conf, "upstream" the text of /run/systemd/resolve/resolv.conf,
\* "nm" that of /run/NetworkManager/resolv.conf, "stubtext" that of the
\* stub-resolv.conf, "hulios" the text take_dns_ownership writes
\* (nameserver 127.0.0.1).  "-" is no content.
NoFile == "-"
HuliosResolv == "hulios"

\* /etc/resolv.conf: a regular file with a content, a symlink to the native
\* resolver's stub config, or absent.
AbsentResolv == [kind |-> "absent", content |-> NoFile, immutable |-> FALSE]
FileResolv(c) == [kind |-> "file", content |-> c, immutable |-> FALSE]
StubLink == [kind |-> "symlink", content |-> "stub", immutable |-> FALSE]

\* What a reader that follows symlinks gets from /etc/resolv.conf
\* (fs::metadata, cp -L): NoFile when absent or dangling.
ReadResolv(r, e) ==
    CASE r.kind = "file" -> r.content
      [] r.kind = "symlink" -> IF e.sysd THEN "stubtext" ELSE NoFile
      [] OTHER -> NoFile

\* chattr -i RESOLV_PATH, best effort.
ChattrMinus(r, chattrOk) ==
    IF chattrOk THEN [r EXCEPT !.immutable = FALSE] ELSE r

\* chattr +i RESOLV_PATH, best effort (only a regular file takes the flag).
ChattrPlus(r, chattrOk) ==
    IF chattrOk /\ r.kind = "file" THEN [r EXCEPT !.immutable = TRUE] ELSE r

\* Whether /etc/resolv.conf can be unlinked or rewritten: not while the
\* immutable attribute is set, nor when /etc takes no writes.
Writable(r, etcOk) == etcOk /\ ~r.immutable

\* fs::remove_file(RESOLV_PATH), result ignored.
RemoveResolv(r, etcOk) == IF Writable(r, etcOk) THEN AbsentResolv ELSE r

\* The first existing candidate of take_dns_ownership's source list.
BackupSource(r, e) ==
    IF e.sysd THEN "upstream"
    ELSE IF e.nm THEN "nm"
    ELSE ReadResolv(r, e)

\* Variant: the copy is made whether or not a backup exists.
BackupStepAlways(b, r, e, cpOk) ==
    IF cpOk /\ BackupSource(r, e) # NoFile THEN BackupSource(r, e) ELSE b

\* The backup step of take_dns_ownership: only when no backup exists, cp -L
\* of the first existing source (best effort).
BackupStep(b, r, e, cpOk) ==
    IF b = NoFile
    THEN IF cpOk /\ BackupSource(r, e) # NoFile THEN BackupSource(r, e) ELSE b
    ELSE b

\* take_dns_ownership: [resolv, backup, ok].
take_dns_ownership(r, b, e, chattrOk, cpOk, etcOk) ==
    LET r1 == ChattrMinus(r, chattrOk)
        b1 == BackupStep(b, r1, e, cpOk)
        r2 == RemoveResolv(r1, etcOk)
        wrote == Writable(r2, etcOk)
        r3 == IF wrote THEN FileResolv(HuliosResolv) ELSE r2
    IN  IF wrote
        THEN [resolv |-> ChattrPlus(r3, chattrOk), backup |-> b1, ok |-> TRUE]
        ELSE [resolv |-> r3, backup |-> b1, ok |-> FALSE]

\* restore_dns, the part on /etc/resolv.conf and the backup:
\* [resolv, backup]; always Ok.  (It also removes the pid marker.)
restore_dns(r, b, chattrOk, lnOk, etcOk) ==
    LET r1 == ChattrMinus(r, chattrOk)
        r2 == RemoveResolv(r1, etcOk)
    IN  IF b # NoFile
        THEN [resolv |-> IF Writable(r2, etcOk) THEN FileResolv(b) ELSE r2,
              backup |-> NoFile]
        ELSE [resolv |-> IF lnOk /\ Writable(r2, etcOk) THEN StubLink ELSE r2,
              backup |-> b]

(* ------------------------------ processes ------------------------------ *)
FreePidsOf(ps) == {q \in DOMAIN ps : ps[q].kind = "free"}

\* A slot of the process table.  parent is the invocation that spawned the
\* process and has not waited on it, 0 when the process belongs to init.
FreeSlot == [kind |-> "free", parent |-> 0]
Proc(kind, parent) == [kind |-> kind, parent |-> parent]

\* The pid a new process gets: the lowest one that is free.
NewPid(ps) == CHOOSE q \in FreePidsOf(ps) : \A r \in FreePidsOf(ps) : q <= r

\* Kinds: "launcher" the child `tor -f torrc` before it detaches, "daemon"
\* the detached relay (RunAsDaemon 1), "zombie" an exited child nobody has
\* waited on, "system" the distribution's tor service, "other" any process
\* that is not tor.
TorNamed == {"launcher", "daemon", "zombie", "system"}

\* The pid marker file: absent, a pid, or text that does not parse.
NoMarker == [st |-> "absent", pid |-> 0]
Marker(pid) == [st |-> "pid", pid |-> pid]
GarbageMarker == [st |-> "garbage", pid |-> 0]

\* kill -0 pid, run as root: succeeds for every pid in the process table,
\* an unreaped zombie included.
KillZero(ps, pid) == pid \in DOMAIN ps /\ ps[pid].kind # "free"

\* pgrep -x tor: succeeds when a process of that name is in the table.
PgrepTor(ps) == \E q \in DOMAIN ps : ps[q].kind \in TorNamed

\* Variant: a failed pid check falls through to the lookup by name.
is_tor_running_fallthrough(m, ps, killOk, pgrepOk) ==
    \/ m.st = "pid" /\ killOk /\ KillZero(ps, m.pid)
    \/ pgrepOk /\ PgrepTor(ps)

\* is_tor_running: the pid check decides whenever the marker parses; the
\* lookup by name is the fallback for an absent or unparseable marker.  A
\* tool that cannot be run counts as false.
is_tor_running(m, ps, killOk, pgrepOk) ==
    IF m.st = "pid"
    THEN killOk /\ KillZero(ps, m.pid)
    ELSE pgrepOk /\ PgrepTor(ps)

\* A tor process ends: an unwaited child of a live invocation stays as a
\* zombie, any other is reaped at once.
Ended(pr) == IF pr.kind = "launcher" /\ pr.parent # 0
             THEN Proc("zombie", pr.parent) ELSE FreeSlot

\* killall tor, best effort: every running process of that name ends.
Killall(ps, killallOk) ==
    IF killallOk
    THEN [q \in DOMAIN ps |->
            IF ps[q].kind \in {"launcher", "daemon", "system"}
            THEN Ended(ps[q]) ELSE ps[q]]
    ELSE ps

\* systemctl stop tor, best effort: the distribution's service ends.
StopTorUnit(ps, systemctlOk) ==
    IF systemctlOk
    THEN [q \in DOMAIN ps |-> IF ps[q].kind = "system" THEN FreeSlot ELSE ps[q]]
    ELSE ps

\* stop_tor_service, the part on the process table (it then removes the pid
\* marker); always Ok.
stop_tor_service(ps, systemctlOk, killallOk) ==
    Killall(StopTorUnit(ps, systemctlOk), killallOk)

\* The invocation p exits: its unreaped children go to init, which reaps
\* the zombies.
ReapChildren(ps, p) ==
    [q \in DOMAIN ps |->
        IF ps[q].parent = p
        THEN IF ps[q].kind = "zombie" THEN FreeSlot ELSE Proc(ps[q].kind, 0)
        ELSE ps[q]]

(* --------------------------- resolver services ------------------------- *)
\* neutralize_system_resolver: mask and stop systemd-resolved, kill it by
\* name, stop NetworkManager-dispatcher, stop and mask dnsmasq; best effort.
neutralize_system_resolver(sv, systemctlOk, killallOk) ==
    LET s1 == IF systemctlOk
              THEN [resolved |-> [masked |-> TRUE, active |-> FALSE],
                    dnsmasq  |-> [masked |-> TRUE, active |-> FALSE],
                    nmdisp   |-> [masked |-> sv.nmdisp.masked, active |-> FALSE]]
              ELSE sv
    IN  IF killallOk THEN [s1 EXCEPT !.resolved.active = FALSE] ELSE s1

\* restore_system_resolver: unmask systemd-resolved and dnsmasq, start
\* systemd-resolved and NetworkManager-dispatcher; best effort.
restore_system_resolver(sv, systemctlOk) ==
    IF systemctlOk
    THEN [resolved |-> [masked |-> FALSE, active |-> TRUE],
          dnsmasq  |-> [masked |-> FALSE, active |-> sv.dnsmasq.active],
          nmdisp   |-> [masked |-> sv.nmdisp.masked, active |-> TRUE]]
    ELSE sv

(* ------------------------------ the handlers --------------------------- *)
\* Each handler is the list of its steps in source order; an invocation's
\* position is the list of the steps it has still to take.
\* Variant: the firewall rules are applied before the liveness check.
StartProgramEager ==
    << "start", "stop_tor_service", "neutralize_system_resolver",
       "prepare", "spawn_tor", "write_pid", "apply_rules",
       "is_tor_running", "take_dns_ownership",
       "notify_started", "spawn_tor_monitor" >>

\* Variant: the success alert is sent before DNS ownership is taken.
StartProgramAlertFirst ==
    << "start", "stop_tor_service", "neutralize_system_resolver",
       "prepare", "spawn_tor", "write_pid",
       "is_tor_running", "apply_rules", "notify_started",
       "take_dns_ownership", "spawn_tor_monitor" >>

\* Variant: the pid of the spawned child is never written to the marker.
StartProgramNoPid ==
    << "start", "stop_tor_service", "neutralize_system_resolver",
       "prepare", "spawn_tor",
       "is_tor_running", "apply_rules", "take_dns_ownership",
       "notify_started", "spawn_tor_monitor" >>

StartProgram ==
    << "start", "stop_tor_service", "neutralize_system_resolver",
       "prepare", "spawn_tor", "write_pid",
       "is_tor_running", "apply_rules", "take_dns_ownership",
       "notify_started", "spawn_tor_monitor" >>

\* Variant: stop ends the relay before it opens the firewall.
StopProgramRelayFirst ==
    << "check_root", "stop_tor_service", "flush_rules", "restore_dns",
       "restore_system_resolver", "notify_stopped" >>

StopProgram ==
    << "check_root", "flush_rules", "stop_tor_service", "restore_dns",
       "restore_system_resolver", "notify_stopped" >>

\* Variant: restart checks the uid only after it has flushed the firewall.
RestartProgramLate ==
    << "flush_rules", "check_root", "stop_tor_service", "restore_dns" >>
    \o StartProgram \o << "notify_restarted" >>

RestartProgram ==
    << "check_root", "flush_rules", "stop_tor_service", "restore_dns" >>
    \o StartProgram \o << "notify_restarted" >>

FlushProgram ==
    << "check_root", "flush_rules", "restore_dns",
       "restore_system_resolver", "notify_flushed" >>

Commands == {"start", "stop", "restart", "flush"}

Program(c) ==
    (CASE c = "start" -> StartProgram
       [] c = "stop" -> StopProgram
       [] c = "restart" -> RestartProgram
       [] c = "flush" -> FlushProgram) \o << "return" >>

\* send_notification(title, _, urgency) of each notifying step.
Alert(title, urgency) == [title |-> title, urgency |-> urgency]
AlertOf(step) ==
    CASE step = "notify_started" -> Alert("HULIOS Started", "normal")
      [] step = "notify_stopped" -> Alert("HULIOS Stopped", "normal")
      [] step = "notify_restarted" -> Alert("HULIOS Restarted", "normal")
      [] step = "notify_flushed" -> Alert("HULIOS Flushed", "normal")
StartupAlert == Alert("HULIOS Error", "critical")
CrashAlert == Alert("HULIOS CRITICAL", "critical")

\* The effective uids an invocation runs with: root and an ordinary user.
Uids == {0, 1000}

\* What can fail under an invocation: an external tool that cannot be run
\* or exits non-zero ("legacy": the two -legacy binaries), and writes below
\* /tmp ("tmp") or to /etc ("etc") that the filesystem refuses.
ToolNames == {"systemctl", "killall", "chown", "tor", "kill", "pgrep",
              "iptables", "ip6tables", "legacy", "chattr", "cp", "ln",
              "tmp", "etc"}

\* An invocation runs with every tool working or with one of them failing.
Scenarios == {{}} \cup {{t} : t \in ToolNames}

\* The firewall binaries a scenario takes away.
DownBins(d) ==
    (d \cap {"iptables", "ip6tables"})
    \cup (IF "legacy" \in d THEN {"iptables-legacy", "ip6tables-legacy"} ELSE {})

(* -------------------------------- state -------------------------------- *)
VARIABLES
    fw,        \* netfilter tables, per binary
    resolv,    \* /etc/resolv.conf
    backup,    \* content of /tmp/hulios_resolv.conf.backup, NoFile if absent
    pidfile,   \* /tmp/hulios_tor.pid
    procs,     \* the process table
    svc,       \* systemd-resolved, dnsmasq, NetworkManager-dispatcher
    env,       \* which resolver stub files the host has
    pc,        \* per invocation: the steps still to take (<< >>: none runs)
    cmd,       \* per invocation: the subcommand
    uid,       \* per invocation: the effective uid
    res,       \* per invocation: what the handler returned
    child,     \* per invocation: pid of the spawned tor child, 0 if none
    chk,       \* per invocation: what the liveness check of start saw
    alerts,    \* per invocation: the notifications sent, in order
    monitor,   \* per invocation: the watcher thread
    down,      \* per invocation: the external tools that fail during it
    snap,      \* per invocation: firewall and resolv.conf on entry to start
    trip,      \* the start/stop round trip under way, if any
    faults,    \* invocations so far that ran with a failing tool
    fwrun,     \* a run of flush_rules / apply_rules taken one invocation at a time
    overlap    \* an invocation was started while another was in its handler

hostVars == <<fw, resolv, backup, pidfile, procs, svc, env>>
procVars == <<pc, cmd, uid, res, child, chk, alerts, monitor, down, snap>>
vars == <<fw, resolv, backup, pidfile, procs, svc, env,
          pc, cmd, uid, res, child, chk, alerts, monitor, down, snap, trip, faults,
          fwrun, overlap>>

NoChk == [done |-> FALSE, exited |-> FALSE, alive |-> FALSE]
NoSnap == [taken |-> FALSE, fw |-> [b \in Bins |-> EmptyTables], resolv |-> AbsentResolv]
NoTrip == [phase |-> "none", pre |-> AbsentResolv]
NoRun == [fn |-> "-", done |-> 0, failed |-> {}, res |-> "-",
          start |-> [b \in Bins |-> EmptyTables]]

\* A host firewall as the program may find it: nothing configured, or the
\* host's own packet filter (default-deny input with an exception, a
\* forwarding rule) and a stale rule in the legacy backend.
HostRule == Rule("tcp", "dport 22", "ACCEPT", "-")
PlainFw == [b \in Bins |-> EmptyTables]
OwnFw ==
    [PlainFw EXCEPT
        !["iptables"].policy["INPUT"] = "DROP",
        !["iptables"].rules[<<"filter", "INPUT">>] = << HostRule >>,
        !["iptables"].rules[<<"filter", "FORWARD">>] = << HostRule >>,
        !["ip6tables"].rules[<<"filter", "INPUT">>] = << HostRule >>,
        !["iptables-legacy"].rules[<<"nat", "OUTPUT">>] =
            << Rule("tcp", "-", "REDIRECT", TRANS_PORT) >>]


\* The hosts the program is started on: which resolver stub files exist,
\* what /etc/resolv.conf is, the firewall found, and whether the
\* distribution's tor service runs.  NetworkManager writes /etc/resolv.conf
\* with the text of its own /run file; under systemd-resolved it is the
\* link to the stub config.
Host(sysd, nm, r, f, systor) ==
    [env |-> [sysd |-> sysd, nm |-> nm], resolv |-> r, fw |-> f, systor |-> systor]
Hosts ==
    { Host(FALSE, FALSE, FileResolv("orig"), PlainFw, FALSE),  \* static config
      Host(TRUE, FALSE, StubLink, OwnFw, TRUE),                \* systemd-resolved
      Host(FALSE, TRUE, FileResolv("nm"), PlainFw, FALSE),     \* NetworkManager
      Host(TRUE, TRUE, StubLink, PlainFw, FALSE),              \* both
      Host(FALSE, FALSE, AbsentResolv, OwnFw, FALSE) }         \* no resolv.conf

\* A host with normal networking: no enforcement in place, nothing left
\* over from an earlier run.
Init ==
    /\ \E h \in Hosts :
         /\ fw = h.fw
         /\ env = h.env
         /\ resolv = h.resolv
         /\ procs = [q \in Pids |->
                       IF h.systor /\ q = 1 THEN Proc("system", 0) ELSE FreeSlot]
    /\ backup = NoFile
    /\ pidfile = NoMarker
    /\ svc = [resolved |-> [masked |-> FALSE, active |-> env.sysd],
              dnsmasq  |-> [masked |-> FALSE, active |-> FALSE],
              nmdisp   |-> [masked |-> FALSE, active |-> env.nm]]
    /\ pc = [p \in Procs |-> << >>]
    /\ cmd = [p \in Procs |-> "-"]
    /\ uid = [p \in Procs |-> 0]
    /\ res = [p \in Procs |-> "-"]
    /\ child = [p \in Procs |-> 0]
    /\ chk = [p \in Procs |-> NoChk]
    /\ alerts = [p \in Procs |-> << >>]
    /\ monitor = [p \in Procs |-> "none"]
    /\ down = [p \in Procs |-> {}]
    /\ snap = [p \in Procs |-> NoSnap]
    /\ trip = NoTrip
    /\ faults = 0
    /\ fwrun = NoRun
    /\ overlap = FALSE

(* ------------------------------- stepping ------------------------------ *)
At(p, step) == pc[p] # << >> /\ Head(pc[p]) = step
Idle(p) == pc[p] = << >>
Returned(p) == At(p, "return")

\* Whether tool t works under invocation p.
Ok(p, t) == t \notin down[p]

\* The step went through: on to the next one; past the last one the
\* handler returns Ok(()).
Goes(p) ==
    /\ pc' = [pc EXCEPT ![p] = Tail(@)]
    /\ res' = [res EXCEPT ![p] = IF Tail(pc[p]) = << "return" >> THEN "ok" ELSE @]

\* The step failed and `?` / bail! carries the error out of the handler
\* (and out of restart when start is its callee).
Bails(p, e) ==
    /\ pc' = [pc EXCEPT ![p] = << "return" >>]
    /\ res' = [res EXCEPT ![p] = e]

\* Normal networking with nothing of the program in place.
Disengaged ==
    /\ \A b \in {"iptables", "ip6tables"} :
         /\ fw[b].policy["OUTPUT"] = "ACCEPT"
         /\ fw[b].rules[<<"nat", "OUTPUT">>] = << >>
         /\ fw[b].rules[<<"filter", "OUTPUT">>] = << >>
    /\ backup = NoFile
    /\ pidfile = NoMarker
    /\ \A q \in Pids : procs[q].kind \notin {"launcher", "daemon", "zombie"}
    /\ resolv.content # HuliosResolv
    /\ ~resolv.immutable
    /\ ~svc.resolved.masked

\* main: the subcommand is dispatched to its handler.
Invoke(p, c, u, d) ==
    /\ Idle(p)
    /\ pc' = [pc EXCEPT ![p] = Program(c)]
    /\ cmd' = [cmd EXCEPT ![p] = c]
    /\ uid' = [uid EXCEPT ![p] = u]
    /\ down' = [down EXCEPT ![p] = d]
    /\ d # {} => faults < MaxFaults
    /\ faults' = IF d # {} THEN faults + 1 ELSE faults
    /\ trip' = IF c = "start" /\ u = 0 /\ d = {} /\ Disengaged
                  /\ \A q \in Procs : Idle(q)
               THEN [phase |-> "engaging", pre |-> resolv]
               ELSE IF c = "stop" /\ u = 0 /\ d = {} /\ trip.phase = "engaged"
               THEN [trip EXCEPT !.phase = "disengaging"]
               ELSE NoTrip
    /\ overlap' = (overlap \/ \E q \in Procs \ {p} : ~Idle(q) /\ ~Returned(q))
    /\ UNCHANGED <<fwrun, hostVars, res, child, chk, alerts, monitor, snap>>

\* The handler has returned; main prints and the process exits.  Its
\* threads end with it and init reaps the children it never waited on.
Exit(p) ==
    /\ Returned(p)
    /\ pc' = [pc EXCEPT ![p] = << >>]
    /\ procs' = ReapChildren(procs, p)
    /\ monitor' = [monitor EXCEPT ![p] = "none"]
    /\ cmd' = [cmd EXCEPT ![p] = "-"]
    /\ uid' = [uid EXCEPT ![p] = 0]
    /\ res' = [res EXCEPT ![p] = "-"]
    /\ child' = [child EXCEPT ![p] = 0]
    /\ chk' = [chk EXCEPT ![p] = NoChk]
    /\ alerts' = [alerts EXCEPT ![p] = << >>]
    /\ down' = [down EXCEPT ![p] = {}]
    /\ snap' = [snap EXCEPT ![p] = NoSnap]
    /\ trip' = IF res[p] = "ok" /\ trip.phase = "engaging"
               THEN [trip EXCEPT !.phase = "engaged"]
               ELSE IF res[p] = "ok" /\ trip.phase = "disengaging"
               THEN [trip EXCEPT !.phase = "roundtrip"]
               ELSE NoTrip
    /\ UNCHANGED <<overlap, fwrun, faults, fw, resolv, backup, pidfile, svc, env>>

\* The get_current_uid() check at the head of stop, restart and flush.
CheckRoot(p) ==
    /\ At(p, "check_root")
    /\ IF uid[p] # 0 THEN Bails(p, "err_root") ELSE Goes(p)
    /\ UNCHANGED <<overlap, fwrun, faults, hostVars, cmd, uid, child, chk, alerts, monitor, down, snap, trip>>

\* Entry to start and its get_current_uid() check.
StartEntry(p) ==
    /\ At(p, "start")
    /\ snap' = [snap EXCEPT ![p] = [taken |-> TRUE, fw |-> fw, resolv |-> resolv]]
    /\ IF uid[p] # 0 THEN Bails(p, "err_root") ELSE Goes(p)
    /\ UNCHANGED <<overlap, fwrun, faults, hostVars, cmd, uid, child, chk, alerts, monitor, down, trip>>

\* stop_tor_service: systemctl stop tor, killall tor, remove the pid marker.
StopTor(p) ==
    /\ At(p, "stop_tor_service")
    /\ procs' = stop_tor_service(procs, Ok(p, "systemctl"), Ok(p, "killall"))
    /\ pidfile' = NoMarker
    /\ Goes(p)
    /\ UNCHANGED <<overlap, fwrun, faults, fw, resolv, backup, svc, env,
                   cmd, uid, child, chk, alerts, monitor, down, snap, trip>>

Neutralize(p) ==
    /\ At(p, "neutralize_system_resolver")
    /\ svc' = neutralize_system_resolver(svc, Ok(p, "systemctl"), Ok(p, "killall"))
    /\ Goes(p)
    /\ UNCHANGED <<overlap, fwrun, faults, fw, resolv, backup, pidfile, procs, env,
                   cmd, uid, child, chk, alerts, monitor, down, snap, trip>>

\* enable_route_localnet (best effort), then the data directory is removed
\* and recreated, chown'ed to tor, and the torrc is written; a failure to
\* create, to run chown or to write is an error of start.  None of these
\* files is read back by the program.
Prepare(p) ==
    /\ At(p, "prepare")
    /\ IF ~Ok(p, "tmp") THEN Bails(p, "err_datadir")
       ELSE IF ~Ok(p, "chown") THEN Bails(p, "err_chown")
       ELSE Goes(p)
    /\ UNCHANGED <<overlap, fwrun, faults, hostVars, cmd, uid, child, chk, alerts, monitor, down, snap, trip>>

\* Command::new("tor").spawn(): the child is never waited on.
SpawnTor(p) ==
    /\ At(p, "spawn_tor")
    /\ IF Ok(p, "tor") /\ FreePidsOf(procs) # {}
       THEN /\ procs' = [procs EXCEPT ![NewPid(procs)] = Proc("launcher", p)]
            /\ child' = [child EXCEPT ![p] = NewPid(procs)]
            /\ Goes(p)
       ELSE /\ Bails(p, "err_spawn")
            /\ UNCHANGED <<procs, child>>
    /\ UNCHANGED <<overlap, fwrun, faults, fw, resolv, backup, pidfile, svc, env,
                   cmd, uid, chk, alerts, monitor, down, snap, trip>>

\* fs::write(TOR_PID_FILE, tor_child.id()).
WritePid(p) ==
    /\ At(p, "write_pid")
    /\ IF Ok(p, "tmp")
       THEN pidfile' = Marker(child[p]) /\ Goes(p)
       ELSE UNCHANGED pidfile /\ Bails(p, "err_pidfile")
    /\ UNCHANGED <<overlap, fwrun, faults, fw, resolv, backup, procs, svc, env,
                   cmd, uid, child, chk, alerts, monitor, down, snap, trip>>

\* After the warm-up sleep: if !is_tor_running() { notify; bail }.
CheckAlive(p) ==
    /\ At(p, "is_tor_running")
    /\ LET alive == is_tor_running(pidfile, procs, Ok(p, "kill"), Ok(p, "pgrep")) IN
         /\ chk' = [chk EXCEPT ![p] =
                      [done |-> TRUE,
                       exited |-> procs[child[p]].kind # "launcher",
                       alive |-> alive]]
         /\ IF alive
            THEN Goes(p) /\ UNCHANGED alerts
            ELSE /\ alerts' = [alerts EXCEPT ![p] = Append(@, StartupAlert)]
                 /\ Bails(p, "err_dead")
    /\ UNCHANGED <<overlap, fwrun, faults, hostVars, cmd, uid, child, monitor, down, snap, trip>>

ApplyRules(p) ==
    /\ At(p, "apply_rules")
    /\ fw' = apply_rules(fw, TOR_USER, FailsOf(FlushCmds, DownBins(down[p])),
                         FailsOf(ApplyCmds(TOR_USER), DownBins(down[p])))
    /\ Goes(p)
    /\ UNCHANGED <<overlap, fwrun, faults, resolv, backup, pidfile, procs, svc, env,
                   cmd, uid, child, chk, alerts, monitor, down, snap, trip>>

FlushRules(p) ==
    /\ At(p, "flush_rules")
    /\ fw' = flush_rules(fw, FailsOf(FlushCmds, DownBins(down[p])))
    /\ Goes(p)
    /\ UNCHANGED <<overlap, fwrun, faults, resolv, backup, pidfile, procs, svc, env,
                   cmd, uid, child, chk, alerts, monitor, down, snap, trip>>

TakeDns(p) ==
    /\ At(p, "take_dns_ownership")
    /\ LET r == take_dns_ownership(resolv, backup, env, Ok(p, "chattr"),
                                   Ok(p, "cp") /\ Ok(p, "tmp"), Ok(p, "etc")) IN
         /\ resolv' = r.resolv
         /\ backup' = r.backup
         /\ IF r.ok THEN Goes(p) ELSE Bails(p, "err_resolv")
    /\ UNCHANGED <<overlap, fwrun, faults, fw, pidfile, procs, svc, env,
                   cmd, uid, child, chk, alerts, monitor, down, snap, trip>>

RestoreDns(p) ==
    /\ At(p, "restore_dns")
    /\ LET r == restore_dns(resolv, backup, Ok(p, "chattr"), Ok(p, "ln"),
                            Ok(p, "etc")) IN
         /\ resolv' = r.resolv
         /\ backup' = r.backup
    /\ pidfile' = NoMarker
    /\ Goes(p)
    /\ UNCHANGED <<overlap, fwrun, faults, fw, procs, svc, env,
                   cmd, uid, child, chk, alerts, monitor, down, snap, trip>>

RestoreResolver(p) ==
    /\ At(p, "restore_system_resolver")
    /\ svc' = restore_system_resolver(svc, Ok(p, "systemctl"))
    /\ Goes(p)
    /\ UNCHANGED <<overlap, fwrun, faults, fw, resolv, backup, pidfile, procs, env,
                   cmd, uid, child, chk, alerts, monitor, down, snap, trip>>

\* send_notification at the end of a handler (and of start inside restart).
Notify(p) ==
    /\ \E step \in {"notify_started", "notify_stopped",
                    "notify_restarted", "notify_flushed"} :
         /\ At(p, step)
         /\ alerts' = [alerts EXCEPT ![p] = Append(@, AlertOf(step))]
    /\ Goes(p)
    /\ UNCHANGED <<overlap, fwrun, faults, hostVars, cmd, uid, child, chk, monitor, down, snap, trip>>

\* spawn_tor_monitor: the watcher thread starts with its 30 s grace sleep.
SpawnMonitor(p) ==
    /\ At(p, "spawn_tor_monitor")
    /\ monitor' = [monitor EXCEPT ![p] = "grace"]
    /\ Goes(p)
    /\ UNCHANGED <<overlap, fwrun, faults, hostVars, cmd, uid, child, chk, alerts, down, snap, trip>>

\* The watcher's grace sleep ends.
MonitorWake(p) ==
    /\ monitor[p] = "grace"
    /\ monitor' = [monitor EXCEPT ![p] = "polling"]
    /\ UNCHANGED <<overlap, fwrun, faults, hostVars, pc, cmd, uid, res, child, chk, alerts, down, snap, trip>>

\* One turn of the watcher's loop: sleep, then the liveness check; a dead
\* relay is reported once and the loop breaks.
MonitorPoll(p) ==
    /\ monitor[p] = "polling"
    /\ IF is_tor_running(pidfile, procs, Ok(p, "kill"), Ok(p, "pgrep"))
       THEN UNCHANGED <<monitor, alerts>>
       ELSE /\ alerts' = [alerts EXCEPT ![p] = Append(@, CrashAlert)]
            /\ monitor' = [monitor EXCEPT ![p] = "done"]
    /\ UNCHANGED <<overlap, fwrun, faults, hostVars, pc, cmd, uid, res, child, chk, down, snap, trip>>

(* ----------------------------- the relay ------------------------------- *)
\* RunAsDaemon 1: the launched tor forks the relay into the background and
\* the launched process itself exits.
RelayDaemonize(q) ==
    /\ procs[q].kind = "launcher"
    /\ FreePidsOf(procs) # {}
    /\ procs' = [procs EXCEPT ![q] = Ended(procs[q]),
                              ![NewPid(procs)] = Proc("daemon", 0)]
    /\ UNCHANGED <<overlap, fwrun, faults, fw, resolv, backup, pidfile, svc, env, procVars, trip>>

\* The launched tor gives up before it detaches (bad config, port in use).
RelayExit(q) ==
    /\ procs[q].kind = "launcher"
    /\ procs' = [procs EXCEPT ![q] = Ended(procs[q])]
    /\ UNCHANGED <<overlap, fwrun, faults, fw, resolv, backup, pidfile, svc, env, procVars, trip>>

\* The detached relay dies.
RelayCrash(q) ==
    /\ procs[q].kind = "daemon"
    /\ procs' = [procs EXCEPT ![q] = FreeSlot]
    /\ UNCHANGED <<overlap, fwrun, faults, fw, resolv, backup, pidfile, svc, env, procVars, trip>>

\* One step of invocation p's handler or of its watcher thread.
HandlerStep(p) ==
    \/ CheckRoot(p) \/ StartEntry(p) \/ StopTor(p) \/ Neutralize(p)
    \/ Prepare(p) \/ SpawnTor(p) \/ WritePid(p)
    \/ CheckAlive(p) \/ ApplyRules(p) \/ FlushRules(p) \/ TakeDns(p)
    \/ RestoreDns(p) \/ RestoreResolver(p) \/ Notify(p) \/ SpawnMonitor(p)
    \/ MonitorWake(p) \/ MonitorPoll(p)

Step(p) == HandlerStep(p) \/ Exit(p)

Relay == \E q \in Pids : RelayDaemonize(q) \/ RelayExit(q) \/ RelayCrash(q)

\* The host serializes the invocations: one runs at a time.
InvokeSerial ==
    /\ \A q \in Procs : Idle(q)
    /\ \E c \in Commands, u \in Uids, d \in Scenarios : Invoke(1, c, u, d)

Next == InvokeSerial \/ (\E p \in Procs : Step(p)) \/ Relay

Spec == Init /\ [][Next]_vars

(* ------------------- the liveness check, on its own -------------------- *)
\* is_tor_running over every marker and process table: the marker absent,
\* unparseable, or naming any pid; every slot free or holding the relay, an
\* unreaped tor child or a process that is not tor; kill or pgrep failing.
ProbeKinds == {"free", "daemon", "zombie", "other"}

InitAlive ==
    /\ fw = PlainFw
    /\ env = [sysd |-> FALSE, nm |-> FALSE]
    /\ resolv = FileResolv("orig")
    /\ backup = NoFile
    /\ pidfile \in {NoMarker, GarbageMarker} \cup {Marker(q) : q \in Pids}
    /\ procs \in [Pids -> {Proc(k, 0) : k \in ProbeKinds}]
    /\ svc = [resolved |-> [masked |-> FALSE, active |-> FALSE],
              dnsmasq  |-> [masked |-> FALSE, active |-> FALSE],
              nmdisp   |-> [masked |-> FALSE, active |-> FALSE]]
    /\ pc = [p \in Procs |-> IF p = 1 THEN << "probe" >> ELSE << >>]
    /\ cmd = [p \in Procs |-> "-"]
    /\ uid = [p \in Procs |-> 0]
    /\ res = [p \in Procs |-> "-"]
    /\ child = [p \in Procs |-> 0]
    /\ chk = [p \in Procs |-> NoChk]
    /\ alerts = [p \in Procs |-> << >>]
    /\ monitor = [p \in Procs |-> "none"]
    /\ down \in [Procs -> {{}, {"kill"}, {"pgrep"}}]
    /\ down[2] = {}
    /\ snap = [p \in Procs |-> NoSnap]
    /\ trip = NoTrip
    /\ faults = 0
    /\ fwrun = NoRun
    /\ overlap = FALSE

Probe(p) ==
    /\ At(p, "probe")
    /\ chk' = [chk EXCEPT ![p] =
                 [done |-> TRUE, exited |-> FALSE,
                  alive |-> is_tor_running(pidfile, procs, Ok(p, "kill"),
                                           Ok(p, "pgrep"))]]
    /\ pc' = [pc EXCEPT ![p] = << >>]
    /\ UNCHANGED <<overlap, fwrun, hostVars, cmd, uid, res, child, alerts, monitor, down,
                   snap, trip, faults>>

NextAlive == \E p \in Procs : Probe(p)

SpecAlive == InitAlive /\ [][NextAlive]_vars

(* ------------- the firewall functions, one invocation at a time -------- *)
\* Most invocations that may fail in one run of flush_rules or apply_rules.
MaxFailed == 2

\* How one invocation of a binary ends: exit status 0, a non-zero exit
\* status, or the binary cannot be spawned.
Outcomes == {"success", "nonzero", "spawn_err"}

\* Variant: a failed invocation is returned as an error.
run_iptables_strict(o) == IF o = "success" THEN "Ok" ELSE "Err"

\* run_iptables: the three arms of its match all give Ok(()).
run_iptables(o) ==
    IF o = "success" THEN "Ok" ELSE IF o = "nonzero" THEN "Ok" ELSE "Ok"

\* run_ip6tables: the same, without the messages.
run_ip6tables(o) ==
    IF o = "success" THEN "Ok" ELSE IF o = "nonzero" THEN "Ok" ELSE "Ok"

\* What the call site gets back: the helper's result, or nothing to look at
\* for the -legacy binaries, which are run directly with the status dropped.
ResultOf(c, o) ==
    IF c.bin = "iptables" THEN run_iptables(o)
    ELSE IF c.bin = "ip6tables" THEN run_ip6tables(o)
    ELSE "Ok"

\* Variant: -A puts the rule at the head of the chain (as -I would).
ExecCmdInsert(f, c) ==
    CASE c.op = "P" -> [f EXCEPT ![c.bin].policy[c.chain] = c.arg]
      [] c.op = "A" ->
           [f EXCEPT ![c.bin].rules[<<c.table, c.chain>>] = << c.arg >> \o @]
      [] c.op = "F" -> [f EXCEPT ![c.bin].rules[<<c.table, c.chain>>] = << >>]

\* The effect of one successful invocation on the tables.
ExecCmd(f, c) ==
    CASE c.op = "P" -> [f EXCEPT ![c.bin].policy[c.chain] = c.arg]
      [] c.op = "A" ->
           [f EXCEPT ![c.bin].rules[<<c.table, c.chain>>] = Append(@, c.arg)]
      [] c.op = "F" -> [f EXCEPT ![c.bin].rules[<<c.table, c.chain>>] = << >>]

\* The invocations of a run of fn, in order: apply_rules runs flush_rules()
\* and then its own list.
RunList(fn) ==
    IF fn = "flush_rules" THEN FlushCmds ELSE FlushCmds \o ApplyCmds(TOR_USER)

\* The call sites whose result is propagated with `?`: the run_iptables
\* calls of apply_rules.  Everything else is `let _ =`.
Checked(fn, i) ==
    fn = "apply_rules" /\ i > Len(FlushCmds) /\ RunList(fn)[i].bin = "iptables"

\* Firewalls a run may start from: none, the host's own, rules in place.
FwStarts == {PlainFw, OwnFw, apply_rules(OwnFw, TOR_USER, {}, {})}

InitFw ==
    /\ fw \in FwStarts
    /\ \E fn \in {"flush_rules", "apply_rules"} :
         fwrun = [fn |-> fn, done |-> 0, failed |-> {}, res |-> "-", start |-> fw]
    /\ env = [sysd |-> FALSE, nm |-> FALSE]
    /\ resolv = FileResolv("orig")
    /\ backup = NoFile
    /\ pidfile = NoMarker
    /\ procs = [q \in Pids |-> FreeSlot]
    /\ svc = [resolved |-> [masked |-> FALSE, active |-> FALSE],
              dnsmasq  |-> [masked |-> FALSE, active |-> FALSE],
              nmdisp   |-> [masked |-> FALSE, active |-> FALSE]]
    /\ pc = [p \in Procs |-> << >>]
    /\ cmd = [p \in Procs |-> "-"]
    /\ uid = [p \in Procs |-> 0]
    /\ res = [p \in Procs |-> "-"]
    /\ child = [p \in Procs |-> 0]
    /\ chk = [p \in Procs |-> NoChk]
    /\ alerts = [p \in Procs |-> << >>]
    /\ monitor = [p \in Procs |-> "none"]
    /\ down = [p \in Procs |-> {}]
    /\ snap = [p \in Procs |-> NoSnap]
    /\ trip = NoTrip
    /\ faults = 0
    /\ overlap = FALSE

\* The next invocation of the run: it succeeds or fails; a result of Err at
\* a `?` call site ends the run with that error, otherwise the run goes on
\* and gives Ok(()) after the last invocation.
RunNext ==
    /\ fwrun.fn # "-"
    /\ fwrun.res = "-"
    /\ LET cmds == RunList(fwrun.fn)
           i == fwrun.done + 1
       IN  \E o \in Outcomes :
             /\ o # "success" => Cardinality(fwrun.failed) < MaxFailed
             /\ fw' = IF o = "success" THEN ExecCmd(fw, cmds[i]) ELSE fw
             /\ fwrun' = [fwrun EXCEPT
                    !.done = i,
                    !.failed = IF o = "success" THEN @ ELSE @ \cup {i},
                    !.res = IF Checked(fwrun.fn, i) /\ ResultOf(cmds[i], o) = "Err"
                            THEN "Err"
                            ELSE IF i = Len(cmds) THEN "Ok" ELSE "-"]
    /\ UNCHANGED <<resolv, backup, pidfile, procs, svc, env, procVars, trip, faults,
                   overlap>>

NextFw == RunNext

SpecFw == InitFw /\ [][NextFw]_vars

(* ---------------------- two invocations at once ----------------------- *)
\* Nothing in the program keeps two invocations apart: a start and a stop,
\* each run once as root with every tool working, in any order and with
\* their steps interleaved in any way.  The run ends when both handlers have
\* returned.
InvokeConc ==
    \/ cmd[1] = "-" /\ Invoke(1, "start", 0, {})
    \/ cmd[2] = "-" /\ Invoke(2, "stop", 0, {})

NextConc == InvokeConc \/ (\E p \in Procs : HandlerStep(p)) \/ Relay

SpecConc == Init /\ [][NextConc]_vars

(* ------------------------------ the claims ----------------------------- *)
Policies(bin) == {fw[bin].policy[c] : c \in Chains}
RelayUp == \E q \in Pids : procs[q].kind \in {"launcher", "daemon"}
OwnerAccept == Rule("uid-owner", TOR_USER, "ACCEPT", "-")
InSeq(x, sq) == \E i \in 1..Len(sq) : sq[i] = x
Criticals(sq) == {i \in 1..Len(sq) : sq[i].urgency = "critical"}

\* C1: after a successful start followed by a successful stop on a
\* disengaged host, every tool working, the IPv4 and IPv6 policies are
\* ACCEPT, /etc/resolv.conf reads as it did before the start, systemd-resolved
\* (where the host has it) is unmasked and started, no relay runs and the pid
\* marker is gone.
C1_RoundTrip ==
    trip.phase = "roundtrip" =>
        /\ Policies("iptables") = {"ACCEPT"}
        /\ Policies("ip6tables") = {"ACCEPT"}
        /\ ReadResolv(resolv, env) = ReadResolv(trip.pre, env)
        /\ env.sysd => ~svc.resolved.masked /\ svc.resolved.active
        /\ ~RelayUp
        /\ pidfile = NoMarker

\* C2: once the resolver backup exists its content changes in no step
\* except the restore_dns that consumes it; a take_dns_ownership that finds
\* a backup leaves it as it is.
C2_BackupKept ==
    [][backup # NoFile /\ backup' # backup
         => backup' = NoFile /\ \E p \in Procs : At(p, "restore_dns")]_vars

\* C2 witness: a start on a host whose resolv.conf was already taken over
\* has run take_dns_ownership again and the backup still holds the original.
C2_Witness ==
    \E p \in Procs :
        /\ At(p, "notify_started")
        /\ snap[p].resolv.content = HuliosResolv
        /\ backup = "orig"

\* C3: when start returns an error raised at or before the liveness check,
\* the firewall is what it was on entry to start and /etc/resolv.conf has not
\* been taken over.
EarlyErrors == {"err_root", "err_datadir", "err_chown", "err_spawn",
                "err_pidfile", "err_dead"}
C3_NoFirewallOnEarlyFailure ==
    \A p \in Procs :
        Returned(p) /\ snap[p].taken /\ res[p] \in EarlyErrors
            => fw = snap[p].fw /\ resolv = snap[p].resolv

\* C3 witness: start has failed at the liveness check.
C3_Witness ==
    \E p \in Procs : Returned(p) /\ snap[p].taken /\ res[p] = "err_dead"

\* C4: if the spawned child has exited by the time of the liveness check,
\* the check reports not-alive, start sends one critical alert and fails.
C4_DeadChildDetected ==
    \A p \in Procs :
        chk[p].done /\ chk[p].exited
            => /\ ~chk[p].alive
               /\ res[p] = "err_dead"
               /\ Cardinality(Criticals(alerts[p])) = 1

\* C5 (as stated): true when either the pid check or the lookup by name
\* succeeds, false when the marker is absent, false when the marker holds a
\* stale pid and no process of the relay's name runs.
PidCheckSucceeds(p) == pidfile.st = "pid" /\ Ok(p, "kill") /\ KillZero(procs, pidfile.pid)
NameLookupSucceeds(p) == Ok(p, "pgrep") /\ PgrepTor(procs)
StaleMarker == pidfile.st = "pid" /\ ~KillZero(procs, pidfile.pid)
C5_AsStated ==
    \A p \in Procs :
        chk[p].done =>
            /\ (PidCheckSucceeds(p) \/ NameLookupSucceeds(p)) => chk[p].alive
            /\ pidfile.st = "absent" => ~chk[p].alive
            /\ (StaleMarker /\ ~PgrepTor(procs)) => ~chk[p].alive

\* C5 (amended): true when the marker parses and the pid check succeeds, or
\* when the marker is absent or unparseable and the lookup by name succeeds;
\* false when the marker is absent and no process of the relay's name runs;
\* false when the marker holds a stale pid, whatever runs under the relay's
\* name.
C5_Alive ==
    \A p \in Procs :
        chk[p].done =>
            /\ PidCheckSucceeds(p) => chk[p].alive
            /\ (pidfile.st # "pid" /\ NameLookupSucceeds(p)) => chk[p].alive
            /\ (pidfile.st = "absent" /\ ~PgrepTor(procs)) => ~chk[p].alive
            /\ StaleMarker => ~chk[p].alive

\* C5 witness: no marker, a process named tor, and the check said alive.
C5_Witness ==
    \E p \in Procs :
        chk[p].done /\ pidfile.st = "absent" /\ PgrepTor(procs) /\ chk[p].alive

\* C6: with every flush invocation succeeding, whenever start is about to
\* apply the rules, applying them to the outcome of apply_rules gives that
\* outcome again (the same rule lists and policies for every binary),
\* whichever of the listed apply invocations fail in both.
ApplyFailSets == {{}, {2}, {7}, {11, 16}}
C6_ApplyIdempotent ==
    \A p \in Procs :
        At(p, "apply_rules") =>
            \A d \in ApplyFailSets :
                LET once == apply_rules(fw, TOR_USER, {}, d)
                IN  apply_rules(once, TOR_USER, {}, d) = once

\* C6 witness: start on a host whose rules were already applied has applied
\* them again and the tables are what they were.
C6_Witness ==
    \E p \in Procs :
        /\ At(p, "take_dns_ownership")
        /\ down[p] = {}
        /\ fw = snap[p].fw
        /\ fw["iptables"].policy["OUTPUT"] = "DROP"
        /\ fw["iptables"].rules[<<"nat", "OUTPUT">>] # << >>

\* C7: a successful restart has sent exactly one alert, the restart one.
C7_OneRestartAlert ==
    \A p \in Procs :
        Returned(p) /\ cmd[p] = "restart" /\ res[p] = "ok"
            => alerts[p] = << AlertOf("notify_restarted") >>

\* C8: after a successful start on a disengaged host, every tool working and
\* the relay up, /etc/resolv.conf holds nameserver 127.0.0.1, the IPv4 OUTPUT
\* policy is DROP, filter OUTPUT accepts the relay's user, and the pid marker
\* holds the pid of the running relay.
C8_EngagedPostState ==
    trip.phase = "engaged" /\ RelayUp =>
        /\ resolv.kind = "file" /\ resolv.content = HuliosResolv
        /\ fw["iptables"].policy["OUTPUT"] = "DROP"
        /\ InSeq(OwnerAccept, fw["iptables"].rules[<<"filter", "OUTPUT">>])
        /\ pidfile.st = "pid"
        /\ procs[pidfile.pid].kind \in {"launcher", "daemon"}

\* C9: every step of an invocation whose uid is not 0 leaves the host
\* (firewall, resolv.conf, backup, pid marker, services, processes) and the
\* alerts as they are, and the handler returns the root error.
C9_NonRootNoEffect ==
    [][\A p \in Procs :
         (uid[p] # 0 /\ ~Idle(p) /\ pc'[p] # pc[p]) =>
            /\ hostVars' = hostVars
            /\ alerts'[p] = << >>
            /\ monitor'[p] = "none"
            /\ pc'[p] \in {<< "return" >>, << >>}
            /\ pc'[p] = << "return" >> => res'[p] = "err_root"]_vars

\* C9 witness: a restart run as an ordinary user has returned the root
\* error on a host that has a firewall to lose.
C9_Witness ==
    \E p \in Procs :
        /\ Returned(p) /\ uid[p] # 0 /\ cmd[p] = "restart"
        /\ res[p] = "err_root"
        /\ fw = OwnFw

\* C10: restore_dns run on its own outcome (every tool working) leaves
\* /etc/resolv.conf and the backup as the first run left them.
C10_RestoreIdempotent ==
    LET once == restore_dns(resolv, backup, TRUE, TRUE, TRUE)
    IN  restore_dns(once.resolv, once.backup, TRUE, TRUE, TRUE) = once

\* C11: under serialized invocations with every tool working, between
\* transitions at most one relay started by the program runs, and the pid
\* marker holds the pid of that relay.
Relays == {q \in Pids : procs[q].kind \in {"launcher", "daemon"}}
C11_OneRelayByMarker ==
    (faults = 0 /\ \A p \in Procs : Idle(p)) =>
        /\ Cardinality(Relays) <= 1
        /\ \A q \in Relays : pidfile = Marker(q)

\* C12: with every tool working, no transition removes the pid marker
\* while the relay keeps running: a flush that returns with a relay still
\* running has left the marker in place.
C12_MarkerLifetime ==
    \A p \in Procs :
        (faults = 0 /\ Returned(p) /\ cmd[p] = "flush" /\ res[p] = "ok"
           /\ Relays # {})
            => pidfile # NoMarker

\* C13: whichever invocations of a run of flush_rules or apply_rules fail,
\* the run never ends in an error; when it has returned it has attempted
\* every invocation of its list, and the tables are those of the successful
\* invocations applied in order.
FlushFailed == {i \in fwrun.failed : i <= Len(FlushCmds)}
ApplyFailed == {i - Len(FlushCmds) : i \in fwrun.failed \ FlushFailed}
C13_FirewallBestEffort ==
    /\ fwrun.res # "Err"
    /\ fwrun.res = "Ok" =>
          /\ fwrun.done = Len(RunList(fwrun.fn))
          /\ fw = IF fwrun.fn = "flush_rules"
                  THEN flush_rules(fwrun.start, FlushFailed)
                  ELSE apply_rules(fwrun.start, TOR_USER, FlushFailed, ApplyFailed)

\* C13 witness: apply_rules has returned Ok after two of its invocations
\* failed, one of them a run_iptables call whose result is propagated.
C13_Witness ==
    /\ fwrun.fn = "apply_rules" /\ fwrun.res = "Ok"
    /\ Cardinality(fwrun.failed) = 2
    /\ \E i \in fwrun.failed : Checked("apply_rules", i)

\* C14: once the relay has died after a successful start, with enforcement
\* still in place, a watcher is still polling or has raised the critical
\* alert.
C14_WatcherAlerts ==
    (trip.phase = "engaged" /\ Relays = {}) =>
        \E p \in Procs :
            \/ monitor[p] \in {"grace", "polling"}
            \/ InSeq(CrashAlert, alerts[p])

\* Invocation p has taken step s of its handler: s is a step of the handler,
\* it is no longer ahead, and the handler has not bailed out.
Done(p, s) ==
    /\ ~Idle(p)
    /\ InSeq(s, Program(cmd[p]))
    /\ ~InSeq(s, pc[p])
    /\ Returned(p) => res[p] = "ok"

StopOrder(p) ==
    /\ Done(p, "stop_tor_service") => Done(p, "flush_rules")
    /\ Done(p, "restore_dns") => Done(p, "stop_tor_service")
    /\ Done(p, "restore_system_resolver") => Done(p, "restore_dns")

Started(p) == InSeq(AlertOf("notify_started"), alerts[p])
C16_StartOrder ==
    \A p \in Procs :
        cmd[p] \in {"start", "restart"} =>
            /\ Done(p, "apply_rules") => chk[p].done /\ chk[p].alive
            /\ Done(p, "take_dns_ownership") => Done(p, "apply_rules")
            /\ Started(p) =>
                  /\ Done(p, "take_dns_ownership")
                  /\ resolv.kind = "file" /\ resolv.content = HuliosResolv
            /\ monitor[p] # "none" => Started(p)
            /\ (Returned(p) /\ res[p] = "err_resolv") =>
                  ~Started(p) /\ monitor[p] = "none"

\* C16 witness: start has returned the error of the failed write.
C16_Witness ==
    \E p \in Procs :
        /\ cmd[p] = "start" /\ Returned(p) /\ res[p] = "err_resolv"
        /\ chk[p].alive
        /\ fw["iptables"].policy["OUTPUT"] = "DROP"

\* C17: when every invocation of apply_rules succeeds, NAT OUTPUT is
\* established RETURN, owner RETURN, udp 53 and tcp 53 REDIRECT to the DNS
\* port, loopback-destination RETURN, tcp REDIRECT to the TransPort; filter
\* OUTPUT is out-lo ACCEPT, loopback-destination ACCEPT, established/related
\* ACCEPT, owner ACCEPT, DROP of udp 53, tcp 53, tcp 853, udp 443, DROP all;
\* and from the end of the flush on, filter OUTPUT holds an ACCEPT rule only
\* while the OUTPUT policy is DROP.
NatOutput == fw["iptables"].rules[<<"nat", "OUTPUT">>]
FilterOutput == fw["iptables"].rules[<<"filter", "OUTPUT">>]
Before(sq, P(_), Q(_)) ==
    \A i, j \in 1..Len(sq) : (P(sq[i]) /\ Q(sq[j])) => i < j
IsOwnerReturn(r) == r.m = "uid-owner" /\ r.j = "RETURN"
IsRedirect(r) == r.j = "REDIRECT"
IsDnsRedirect(r) == r.j = "REDIRECT" /\ r.marg = "dport 53"
IsDstRule(r) == r.m = "dst"
IsAccept(r) == r.j = "ACCEPT"
C17_RuleOrder ==
    (fwrun.fn = "apply_rules" /\ fwrun.failed = {}) =>
        /\ fwrun.res = "Ok" =>
             /\ NatOutput =
                  << Rule("state", "ESTABLISHED", "RETURN", "-"),
                     Rule("uid-owner", TOR_USER, "RETURN", "-"),
                     Rule("udp", "dport 53", "REDIRECT", DNS_PORT),
                     Rule("tcp", "dport 53", "REDIRECT", DNS_PORT),
                     Rule("dst", "127.0.0.0/8", "RETURN", "-"),
                     Rule("tcp", "-", "REDIRECT", TRANS_PORT) >>
             /\ Before(NatOutput, IsOwnerReturn, IsRedirect)
             /\ Before(NatOutput, IsDnsRedirect, IsDstRule)
             /\ fw["iptables"].policy["OUTPUT"] = "DROP"
             /\ FilterOutput =
                  << Rule("out", "lo", "ACCEPT", "-"),
                     Rule("dst", "127.0.0.0/8", "ACCEPT", "-"),
                     Rule("state", "ESTABLISHED,RELATED", "ACCEPT", "-"),
                     Rule("uid-owner", TOR_USER, "ACCEPT", "-"),
                     Rule("udp", "dport 53", "DROP", "-"),
                     Rule("tcp", "dport 53", "DROP", "-"),
                     Rule("tcp", "dport 853", "DROP", "-"),
                     Rule("udp", "dport 443", "DROP", "-"),
                     Rule("any", "-", "DROP", "-") >>
        /\ (fwrun.done >= Len(FlushCmds)
              /\ \E i \in 1..Len(FilterOutput) : IsAccept(FilterOutput[i]))
             => fw["iptables"].policy["OUTPUT"] = "DROP"

\* C17 witness: apply_rules has returned, every invocation having
\* succeeded, on a host that had rules in place.
C17_Witness ==
    /\ fwrun.fn = "apply_rules" /\ fwrun.res = "Ok" /\ fwrun.failed = {}
    /\ fwrun.start["iptables"].rules[<<"nat", "OUTPUT">>] # << >>
    /\ Len(FilterOutput) = 9

\* C18: when flush_rules has returned, every invocation having succeeded,
\* the OUTPUT, INPUT and FORWARD policies of both families are ACCEPT, NAT
\* OUTPUT and filter OUTPUT of both families are empty, the IPv6 filter INPUT
\* chain is empty, and the IPv4 filter INPUT chain holds the rules it held
\* before.
C18_FlushFrame ==
    (fwrun.fn = "flush_rules" /\ fwrun.res = "Ok" /\ fwrun.failed = {}) =>
        /\ \A b \in {"iptables", "ip6tables"} :
             /\ \A c \in Chains : fw[b].policy[c] = "ACCEPT"
             /\ fw[b].rules[<<"nat", "OUTPUT">>] = << >>
             /\ fw[b].rules[<<"filter", "OUTPUT">>] = << >>
        /\ fw["ip6tables"].rules[<<"filter", "INPUT">>] = << >>
        /\ fw["iptables"].rules[<<"filter", "INPUT">>]
             = fwrun.start["iptables"].rules[<<"filter", "INPUT">>]

\* C19: when the first phase of restart is over and start is about to be
\* called, the host is as stop leaves it: with systemctl working, the native
\* resolver has been restored (systemd-resolved and dnsmasq are unmasked).
C19_RestartStopsFirst ==
    \A p \in Procs :
        (cmd[p] = "restart" /\ At(p, "start") /\ Ok(p, "systemctl")) =>
            /\ Done(p, "flush_rules")
            /\ Done(p, "restore_dns")
            /\ ~svc.resolved.masked
            /\ ~svc.dnsmasq.masked

\* C20: start and stop have both returned success with the OUTPUT policy
\* DROP and the redirect rules installed while no relay runs and the pid
\* marker is gone: a final state that comes about only when one of the two
\* was started while the other was in its handler, never when they ran one
\* after the other.
BothOk == \A p \in Procs : Returned(p) /\ res[p] = "ok"
Mixed ==
    /\ fw["iptables"].policy["OUTPUT"] = "DROP"
    /\ \E i \in 1..Len(NatOutput) : IsRedirect(NatOutput[i])
    /\ Relays = {}
    /\ pidfile = NoMarker
C20_MixedOnlyInterleaved == (BothOk /\ Mixed) => overlap

\* C20 witness: the mixed final state, reached by interleaving.
C20_Witness == BothOk /\ Mixed /\ overlap

\* C21: whenever start has returned success, the IPv4 OUTPUT policy is DROP
\* and NAT OUTPUT holds the redirects to the relay's DNS port and to its
\* transparent-proxy port, whatever tool failed during the invocation.
RedirectsTo(port) ==
    \E i \in 1..Len(NatOutput) :
        NatOutput[i].j = "REDIRECT" /\ NatOutput[i].jarg = port
C21_EnforcedOnSuccess ==
    \A p \in Procs :
        (Returned(p) /\ cmd[p] = "start" /\ res[p] = "ok") =>
            /\ fw["iptables"].policy["OUTPUT"] = "DROP"
            /\ RedirectsTo(DNS_PORT)
            /\ RedirectsTo(TRANS_PORT)

\* C22: a step that deletes the resolver backup leaves /etc/resolv.conf a
\* regular file holding the backup's content.
C22_BackupConsumedByRestore ==
    [][(backup # NoFile /\ backup' = NoFile)
         => resolv'.kind = "file" /\ resolv'.content = backup]_vars

====
